---- MODULE Spec2Model ----
(***************************************************************************)
(* Request handling of the coffee-shop API (backend/src/api.py): the five  *)
(* routes over the drinks table, the permission gate in front of four of   *)
(* them, and the error handlers that shape every failure response.         *)
(***************************************************************************)
EXTENDS Integers, Sequences, FiniteSets, TLC

\* Largest id the store hands out before creation is cut off.
MaxId == 2

VARIABLES drinks, seq, request, response

vars == <<drinks, seq, request, response>>

----------------------------------------------------------------------------
\* Request inputs

Titles == {"Water", "Latte"}

Water == [name |-> "Water", color |-> "blue", parts |-> 1]

Milk == [name |-> "Milk", color |-> "white", parts |-> 2]

\* The recipes request bodies carry: ordered lists of ingredient entries.
Recipes == { <<Water>>, <<Milk, Water>> }

NoRecipe == << >>

Permissions == {"get:drinks-detail", "post:drinks", "patch:drinks", "delete:drinks"}

\* The permission sets of the tokens in play: one that reads the detail
\* list only, one that edits the menu only.
PermissionSets ==
    { {"get:drinks-detail"}, {"post:drinks", "patch:drinks", "delete:drinks"} }

\* A bearer token as the verifier sees it: absent, failing verification, or
\* verified and carrying a permission set.
Tokens ==
    { [kind |-> "none", permissions |-> {}], [kind |-> "invalid", permissions |-> {}] }
    \cup { [kind |-> "valid", permissions |-> P] : P \in PermissionSets }

\* request.get_json(): None (present = FALSE) or a dict with any of the keys
\* title and recipe.
Bodies ==
    { [present |-> FALSE, keys |-> {}, title |-> "", recipe |-> NoRecipe],
      [present |-> TRUE, keys |-> {}, title |-> "", recipe |-> NoRecipe] }
    \cup { [present |-> TRUE, keys |-> {"title"}, title |-> t, recipe |-> NoRecipe] :
             t \in Titles }
    \cup { [present |-> TRUE, keys |-> {"recipe"}, title |-> "", recipe |-> r] :
             r \in Recipes }
    \cup { [present |-> TRUE, keys |-> {"title", "recipe"}, title |-> t, recipe |-> r] :
             t \in Titles, r \in Recipes }

NoBody == [present |-> FALSE, keys |-> {}, title |-> "", recipe |-> NoRecipe]

Ids == 1..MaxId

----------------------------------------------------------------------------
\* json.dumps / json.loads of a recipe.  The text is the sequence of the
\* field values in order, every value rendered as a string.

IntToStr(n) == IF n = 1 THEN "1" ELSE IF n = 2 THEN "2" ELSE "0"

StrToInt(s) == IF s = "1" THEN 1 ELSE IF s = "2" THEN 2 ELSE 0

json_dumps(recipe) ==
    [ i \in 1..(3 * Len(recipe)) |->
        LET e == recipe[((i - 1) \div 3) + 1]
            k == (i - 1) % 3
        IN  IF k = 0 THEN e.name ELSE IF k = 1 THEN e.color ELSE IntToStr(e.parts) ]

json_loads(text) ==
    [ i \in 1..(Len(text) \div 3) |->
        [ name |-> text[3 * i - 2],
          color |-> text[3 * i - 1],
          parts |-> StrToInt(text[3 * i]) ] ]

----------------------------------------------------------------------------
\* The drinks table and the Drink model

\* Drink(title=..., recipe=...)
Drink(id, title, recipe) == [id |-> id, title |-> title, recipe |-> recipe]

\* Long projection: id, title and the whole recipe.
long(drink) ==
    [id |-> drink.id, title |-> drink.title, recipe |-> json_loads(drink.recipe)]

\* Short projection: the recipe entries without their quantity.
short(drink) ==
    [ id |-> drink.id, title |-> drink.title,
      recipe |-> LET r == json_loads(drink.recipe)
                 IN  [ i \in 1..Len(r) |-> [name |-> r[i].name, color |-> r[i].color] ] ]

\* Variant: the id is one more than the largest stored id.
NewId_max_plus_one(table, s) ==
    IF table = {} THEN 1
    ELSE (CHOOSE i \in { d.id : d \in table } : \A d \in table : d.id <= i) + 1

\* The id the store assigns to a new row: the next value of its sequence.
NewId(table, s) == s

\* drink.insert(): the row gets a new id and is persisted.
insert(table, s, title, recipe) ==
    LET id == NewId(table, s)
    IN  [ table |-> table \cup {Drink(id, title, recipe)},
          seq |-> s + 1,
          drink |-> Drink(id, title, recipe) ]

\* drink.update(): the changed row replaces the stored one.
update(table, old, new) == (table \ {old}) \cup {new}

\* drink.delete(): the row is removed.
delete(table, drink) == table \ {drink}

\* Drink.query.get(id): the rows with that primary key (none: None).
query_get(table, id) == { d \in table : d.id = id }

\* Drink.query.order_by(Drink.id).all()
RECURSIVE order_by_id(_)
order_by_id(table) ==
    IF table = {} THEN << >>
    ELSE LET first == CHOOSE d \in table : \A e \in table : d.id <= e.id
         IN  <<first>> \o order_by_id(table \ {first})

----------------------------------------------------------------------------
\* Responses

Success(items) ==
    [ status |-> 200, success |-> TRUE, keys |-> {"success", "drinks"},
      drinks |-> items, delete |-> 0, error |-> 0 ]

Deleted(id) ==
    [ status |-> 200, success |-> TRUE, keys |-> {"success", "delete"},
      drinks |-> << >>, delete |-> id, error |-> 0 ]

\* The error handlers: the envelope carries the status code.
ErrorResponse(code) ==
    [ status |-> code, success |-> FALSE, keys |-> {"success", "error", "message"},
      drinks |-> << >>, delete |-> 0, error |-> code ]

not_found == ErrorResponse(404)

uproccessable == ErrorResponse(422)

internal_server_error == ErrorResponse(500)

auth_error(status_code) == ErrorResponse(status_code)

\* What a handler leaves behind: the table, its id sequence, the response.
Outcome(table, s, resp) == [drinks |-> table, seq |-> s, response |-> resp]

----------------------------------------------------------------------------
\* The permission gate.  The set of statuses the check can end with; 0 means
\* the token passed and the handler body runs.

requires_auth(token, permission) ==
    IF token.kind = "none" THEN {401}
    ELSE IF token.kind = "invalid" THEN {401, 403}
    ELSE IF permission \notin token.permissions THEN {403}
    ELSE {0}

----------------------------------------------------------------------------
\* Handler bodies

\* [drink.short() for drink in drinks]
shorts(l) == [ i \in 1..Len(l) |-> short(l[i]) ]

\* [drink.long() for drink in drinks]
longs(l) == [ i \in 1..Len(l) |-> long(l[i]) ]

\* Variant: the list is returned in reverse order.
get_drinks_descending(table, db_ok) ==
    IF db_ok
    THEN LET l == order_by_id(table)
         IN  Success(shorts([ i \in 1..Len(l) |-> l[Len(l) + 1 - i] ]))
    ELSE not_found

\* db_ok = FALSE: the query raises and the except branch aborts with 404.
get_drinks(table, db_ok) ==
    IF db_ok THEN Success(shorts(order_by_id(table))) ELSE not_found

get_drinks_detail(table, db_ok) ==
    IF db_ok THEN Success(longs(order_by_id(table))) ELSE not_found

\* Variant: the presence test looks at title only.
post_drink_title_only(table, s, data) ==
    IF ~data.present THEN Outcome(table, s, internal_server_error)
    ELSE IF "title" \notin data.keys THEN Outcome(table, s, uproccessable)
    ELSE IF "recipe" \notin data.keys THEN Outcome(table, s, internal_server_error)
    ELSE LET ins == insert(table, s, data.title, json_dumps(data.recipe))
         IN  Outcome(ins.table, ins.seq, Success(<<long(ins.drink)>>))

\* Variant: the new drink is returned without drink.insert().
post_drink_no_insert(table, s, data) ==
    IF ~data.present THEN Outcome(table, s, internal_server_error)
    ELSE IF "recipe" \notin data.keys THEN Outcome(table, s, uproccessable)
    ELSE IF "title" \notin data.keys THEN Outcome(table, s, internal_server_error)
    ELSE Outcome(table, s, Success(<<long(Drink(0, data.title, json_dumps(data.recipe)))>>))

\* Variant: a missing title is defaulted and the row inserted before the
\* lookup of the title fails.
post_drink_insert_first(table, s, data) ==
    IF ~data.present THEN Outcome(table, s, internal_server_error)
    ELSE IF "recipe" \notin data.keys THEN Outcome(table, s, uproccessable)
    ELSE LET ins == insert(table, s, IF "title" \in data.keys THEN data.title ELSE "Water",
                           json_dumps(data.recipe))
         IN  IF "title" \notin data.keys
             THEN Outcome(ins.table, ins.seq, internal_server_error)
             ELSE Outcome(ins.table, ins.seq, Success(<<long(ins.drink)>>))

\* 'title' and 'recipe' not in data: the string 'title' is truthy, so the
\* test is 'recipe' not in data.  On None the test raises TypeError; a
\* missing title raises KeyError at data['title'].
post_drink(table, s, data) ==
    IF ~data.present THEN Outcome(table, s, internal_server_error)
    ELSE IF "recipe" \notin data.keys THEN Outcome(table, s, uproccessable)
    ELSE IF "title" \notin data.keys THEN Outcome(table, s, internal_server_error)
    ELSE LET ins == insert(table, s, data.title, json_dumps(data.recipe))
         IN  Outcome(ins.table, ins.seq, Success(<<long(ins.drink)>>))

\* Variant: a field missing from the body is overwritten with a default
\* (data.get instead of the presence test).
update_drink_overwrite(table, s, id, data) ==
    LET found == query_get(table, id)
    IN  IF found = {} THEN Outcome(table, s, not_found)
        ELSE IF ~data.present THEN Outcome(table, s, internal_server_error)
        ELSE LET drink == CHOOSE d \in found : TRUE
                 title == IF "title" \in data.keys THEN data.title ELSE drink.title
                 recipe == json_dumps(data.recipe)
                 new == Drink(drink.id, title, recipe)
             IN  Outcome(update(table, drink, new), s, Success(<<long(new)>>))

update_drink(table, s, id, data) ==
    LET found == query_get(table, id)
    IN  IF found = {} THEN Outcome(table, s, not_found)
        ELSE IF ~data.present THEN Outcome(table, s, internal_server_error)
        ELSE LET drink == CHOOSE d \in found : TRUE
                 title == IF "title" \in data.keys THEN data.title ELSE drink.title
                 recipe == IF "recipe" \in data.keys
                           THEN json_dumps(data.recipe) ELSE drink.recipe
                 new == Drink(drink.id, title, recipe)
             IN  Outcome(update(table, drink, new), s, Success(<<long(new)>>))

\* Variant: no test for None; an unknown id is answered like a deletion.
delete_drink_no_check(table, s, id) ==
    LET found == query_get(table, id)
    IN  IF found = {} THEN Outcome(table, s, Deleted(id))
        ELSE LET drink == CHOOSE d \in found : TRUE
             IN  Outcome(delete(table, drink), s, Deleted(drink.id))

\* Variant: the response is built without drink.delete().
delete_drink_no_delete(table, s, id) ==
    LET found == query_get(table, id)
    IN  IF found = {} THEN Outcome(table, s, not_found)
        ELSE LET drink == CHOOSE d \in found : TRUE
             IN  Outcome(table, s, Deleted(drink.id))

delete_drink(table, s, id) ==
    LET found == query_get(table, id)
    IN  IF found = {} THEN Outcome(table, s, not_found)
        ELSE LET drink == CHOOSE d \in found : TRUE
             IN  Outcome(delete(table, drink), s, Deleted(drink.id))

----------------------------------------------------------------------------
\* The state machine: one action per route

Request(method, path, token, id, data, db_ok) ==
    [ method |-> method, path |-> path, token |-> token, id |-> id,
      data |-> data, db_ok |-> db_ok ]

Init ==
    /\ drinks = {}
    /\ seq = 1
    /\ request = Request("NONE", "", [kind |-> "none", permissions |-> {}], 0, NoBody, TRUE)
    /\ response = ErrorResponse(0)

Apply(req, out) ==
    /\ out.seq <= MaxId + 1
    /\ request' = req
    /\ drinks' = out.drinks
    /\ seq' = out.seq
    /\ response' = out.response

GET_drinks ==
    \E token \in Tokens, db_ok \in BOOLEAN :
        Apply(Request("GET", "/drinks", token, 0, NoBody, db_ok),
              Outcome(drinks, seq, get_drinks(drinks, db_ok)))

GET_drinks_detail ==
    \E token \in Tokens, db_ok \in BOOLEAN :
        \E st \in requires_auth(token, "get:drinks-detail") :
            Apply(Request("GET", "/drinks-detail", token, 0, NoBody, db_ok),
                  IF st # 0 THEN Outcome(drinks, seq, auth_error(st))
                  ELSE Outcome(drinks, seq, get_drinks_detail(drinks, db_ok)))

POST_drinks ==
    \E token \in Tokens, data \in Bodies :
        \E st \in requires_auth(token, "post:drinks") :
            Apply(Request("POST", "/drinks", token, 0, data, TRUE),
                  IF st # 0 THEN Outcome(drinks, seq, auth_error(st))
                  ELSE post_drink(drinks, seq, data))

PATCH_drinks ==
    \E token \in Tokens, id \in Ids, data \in Bodies :
        \E st \in requires_auth(token, "patch:drinks") :
            Apply(Request("PATCH", "/drinks/<id>", token, id, data, TRUE),
                  IF st # 0 THEN Outcome(drinks, seq, auth_error(st))
                  ELSE update_drink(drinks, seq, id, data))

\* Variant: the route without its requires_auth decorator.
DELETE_drinks_ungated ==
    \E token \in Tokens, id \in Ids :
        Apply(Request("DELETE", "/drinks/<id>", token, id, NoBody, TRUE),
              delete_drink(drinks, seq, id))

DELETE_drinks ==
    \E token \in Tokens, id \in Ids :
        \E st \in requires_auth(token, "delete:drinks") :
            Apply(Request("DELETE", "/drinks/<id>", token, id, NoBody, TRUE),
                  IF st # 0 THEN Outcome(drinks, seq, auth_error(st))
                  ELSE delete_drink(drinks, seq, id))

Next ==
    \/ GET_drinks
    \/ GET_drinks_detail
    \/ POST_drinks
    \/ PATCH_drinks
    \/ DELETE_drinks

Spec == Init /\ [][Next]_vars

----------------------------------------------------------------------------
\* Shape of the state

TypeOK ==
    /\ \A d \in drinks : d.id \in Ids /\ d.title \in Titles /\ json_loads(d.recipe) \in Recipes
    /\ seq \in 1..(MaxId + 1)
    /\ response.status \in {0, 200, 401, 403, 404, 422, 500}

\* The token of the request carries the permission.
Carries(req, permission) ==
    req.token.kind = "valid" /\ permission \in req.token.permissions

\* The permission string of the route a request goes to ("" : not gated).
RequiredPermission(req) ==
    IF req.method = "GET" /\ req.path = "/drinks-detail" THEN "get:drinks-detail"
    ELSE IF req.method = "POST" THEN "post:drinks"
    ELSE IF req.method = "PATCH" THEN "patch:drinks"
    ELSE IF req.method = "DELETE" THEN "delete:drinks"
    ELSE ""

IdsOf(table) == { d.id : d \in table }

ListedIds(resp) == { resp.drinks[i].id : i \in 1..Len(resp.drinks) }

----------------------------------------------------------------------------
\* C1: a POST that passes the post:drinks gate with a body that has no recipe
\* key is answered 422, with or without a title, and creates nothing.
C1_MissingRecipeIs422 ==
    [][ ( /\ request'.method = "POST"
          /\ Carries(request', "post:drinks")
          /\ request'.data.present
          /\ "recipe" \notin request'.data.keys )
        => ( /\ response'.status = 422
             /\ response'.success = FALSE
             /\ drinks' = drinks
             /\ seq' = seq ) ]_vars

C1_Witness ==
    /\ request.method = "POST"
    /\ Carries(request, "post:drinks")
    /\ request.data.keys = {"title"}
    /\ response.status = 422

\* C2: a POST that passes the gate with a body that has recipe but no title
\* is answered 422.
C2_MissingTitleIs422 ==
    ( /\ request.method = "POST"
      /\ Carries(request, "post:drinks")
      /\ request.data.present
      /\ "recipe" \in request.data.keys
      /\ "title" \notin request.data.keys )
    => response.status = 422

\* C3: a successful POST answers with exactly the new item in long form and
\* stores it under the returned id with the posted title and recipe; the item
\* stays as stored until a PATCH or DELETE of its id; and an authorized GET
\* /drinks-detail lists every stored item in long form.
C3_PostThenDetail ==
    [][ /\ ( request'.method = "POST" /\ response'.status = 200 )
           => \E d \in drinks' \ drinks :
                /\ d.id \notin IdsOf(drinks)
                /\ drinks' = drinks \cup {d}
                /\ long(d) = [ id |-> d.id, title |-> request'.data.title,
                               recipe |-> request'.data.recipe ]
                /\ response'.drinks = <<long(d)>>
        /\ \A d \in drinks :
               ~( request'.method \in {"PATCH", "DELETE"} /\ request'.id = d.id )
               => d \in drinks'
        /\ ( /\ request'.method = "GET"
             /\ request'.path = "/drinks-detail"
             /\ Carries(request', "get:drinks-detail")
             /\ request'.db_ok )
           => /\ response'.status = 200
              /\ \A d \in drinks :
                   \E i \in 1..Len(response'.drinks) : response'.drinks[i] = long(d) ]_vars

C3_Witness ==
    /\ request.method = "POST"
    /\ response.status = 200
    /\ request.data.recipe = <<Milk, Water>>
    /\ response.drinks[1].recipe = <<Milk, Water>>
    /\ Cardinality(drinks) = 2

\* C4: an authorized PATCH of an existing item changes only the fields in the
\* body: a missing title or recipe key leaves that stored field as it was, the
\* item keeps its id, and all other items are unchanged.
C4_PatchChangesOnlyGivenFields ==
    [][ ( /\ request'.method = "PATCH"
          /\ Carries(request', "patch:drinks")
          /\ request'.data.present
          /\ request'.id \in IdsOf(drinks) )
        => \E old \in drinks, new \in drinks' :
             /\ old.id = request'.id
             /\ new.id = old.id
             /\ drinks' = (drinks \ {old}) \cup {new}
             /\ seq' = seq
             /\ new.title = IF "title" \in request'.data.keys
                            THEN request'.data.title ELSE old.title
             /\ new.recipe = IF "recipe" \in request'.data.keys
                             THEN json_dumps(request'.data.recipe) ELSE old.recipe
             /\ response'.status = 200
             /\ response'.drinks = <<long(new)>> ]_vars

C4_Witness ==
    /\ request.method = "PATCH"
    /\ response.status = 200
    /\ request.data.keys = {"title"}
    /\ Cardinality(drinks) = 2
    /\ \E d \in drinks :
         /\ d.id = request.id
         /\ d.title = request.data.title
         /\ json_loads(d.recipe) = <<Milk, Water>>

\* C5: an authorized DELETE or PATCH of an id that no stored item has is
\* answered 404 with success false, never 200.
C5_UnknownIdIs404 ==
    [][ ( /\ request'.method \in {"PATCH", "DELETE"}
          /\ Carries(request', RequiredPermission(request'))
          /\ request'.id \notin IdsOf(drinks) )
        => ( /\ response'.status = 404
             /\ response'.success = FALSE
             /\ response'.error = 404 ) ]_vars

\* A DELETE of an id that was assigned and then deleted.
C5_Witness ==
    /\ request.method = "DELETE"
    /\ Carries(request, "delete:drinks")
    /\ request.id < seq
    /\ request.id \notin IdsOf(drinks)
    /\ drinks # {}
    /\ response.status = 404

\* C6: on each gated route a request without a token is answered 401, one
\* with a verified token lacking the route's permission 403, and whenever the
\* token does not carry the route's permission the answer is the 401/403
\* error envelope and the store is untouched.
C6_GateBeforeHandler ==
    [][ ( RequiredPermission(request') # "" )
        => /\ ( request'.token.kind = "none" => response'.status = 401 )
           /\ ( ( /\ request'.token.kind = "valid"
                  /\ RequiredPermission(request') \notin request'.token.permissions )
                => response'.status = 403 )
           /\ ( ~Carries(request', RequiredPermission(request'))
                => /\ response'.status \in {401, 403}
                   /\ response'.success = FALSE
                   /\ response'.keys = {"success", "error", "message"}
                   /\ response'.drinks = << >>
                   /\ drinks' = drinks
                   /\ seq' = seq ) ]_vars

C6_Witness ==
    /\ request.method = "DELETE"
    /\ request.token.kind = "valid"
    /\ "delete:drinks" \notin request.token.permissions
    /\ request.id \in IdsOf(drinks)
    /\ response.status = 403

\* C7: a successful DELETE removes exactly the item with the id, leaves the
\* others, and returns the id; an id that was assigned and is gone never comes
\* back, the GET routes list stored ids only, and an authorized DELETE or
\* PATCH of a gone id is answered 404.
C7_DeleteRemovesForGood ==
    [][ /\ ( request'.method = "DELETE" /\ response'.status = 200 )
           => \E d \in drinks :
                /\ d.id = request'.id
                /\ drinks' = drinks \ {d}
                /\ request'.id \notin IdsOf(drinks')
                /\ response'.delete = request'.id
        /\ \A i \in Ids : ( i < seq /\ i \notin IdsOf(drinks) ) => i \notin IdsOf(drinks')
        /\ ( request'.method = "GET" /\ response'.status = 200 )
           => ListedIds(response') \subseteq IdsOf(drinks)
        /\ ( /\ request'.method \in {"PATCH", "DELETE"}
             /\ Carries(request', RequiredPermission(request'))
             /\ request'.id < seq
             /\ request'.id \notin IdsOf(drinks) )
           => response'.status = 404 ]_vars

C7_Witness ==
    /\ request.method = "DELETE"
    /\ response.status = 200
    /\ response.delete = request.id
    /\ request.id = 1
    /\ IdsOf(drinks) = {2}

\* C8: stored ids are unique, no request changes the id of a stored item, and
\* a created item gets an id that was never assigned before.
C8_IdsUniqueAndNeverReused ==
    [][ /\ \A a, b \in drinks' : a.id = b.id => a = b
        /\ \A d \in drinks' : d.id < seq'
        /\ seq' >= seq
        /\ \A i \in IdsOf(drinks') \ IdsOf(drinks) :
               i >= seq /\ request'.method = "POST"
        /\ \A i \in IdsOf(drinks) \ IdsOf(drinks') :
               request'.method = "DELETE" /\ request'.id = i ]_vars

\* An item created after the item with id 1 was deleted.
C8_Witness ==
    /\ request.method = "POST"
    /\ response.status = 200
    /\ response.drinks[1].id = 2
    /\ IdsOf(drinks) = {2}

\* C9: the GET routes leave the store as it was, answered 200 or not; on 200
\* they list every stored item once, by ascending id, in the route's
\* projection; GET /drinks is answered without regard to the token.
C9_GetsAreReadOnlyAndOrdered ==
    [][ ( request'.method = "GET" )
        => /\ drinks' = drinks
           /\ seq' = seq
           /\ ( response'.status = 200 )
              => /\ Len(response'.drinks) = Cardinality(drinks)
                 /\ ListedIds(response') = IdsOf(drinks)
                 /\ \A i, j \in 1..Len(response'.drinks) :
                        i < j => response'.drinks[i].id < response'.drinks[j].id
                 /\ \A i \in 1..Len(response'.drinks) :
                        \E d \in drinks :
                            response'.drinks[i] =
                                IF request'.path = "/drinks" THEN short(d) ELSE long(d)
           /\ ( request'.path = "/drinks" /\ request'.db_ok ) => response'.status = 200 ]_vars

C9_Witness ==
    /\ request.method = "GET"
    /\ request.path = "/drinks"
    /\ request.token.kind = "none"
    /\ response.status = 200
    /\ Len(response.drinks) = 2
    /\ Cardinality(drinks) = 2

\* C10: a request that is not answered with success true leaves the store as
\* it was.
C10_FailureLeavesStore ==
    [][ ( response'.success = FALSE ) => ( drinks' = drinks /\ seq' = seq ) ]_vars

C10_Witness ==
    /\ request.method = "POST"
    /\ Carries(request, "post:drinks")
    /\ request.data.keys = {"recipe"}
    /\ response.success = FALSE
    /\ response.status = 500
    /\ drinks # {}

====
